---- MODULE Spec2Model ----
(***************************************************************************)
(* Credential exchange of the learner credential wallet:                   *)
(* app/lib/credentialRequest.ts (requestCredential and the request shape   *)
(* checks).  One exchange attempt is one call of the async function        *)
(* requestCredential; every await is a suspension point, and the code      *)
(* between two awaits runs as one atomic step.                             *)
(***************************************************************************)
EXTENDS Integers, Sequences, FiniteSets, TLC

VARIABLES
  params,       \* attempt -> the parameter bag requestCredential was called with
  pc,           \* attempt -> position of the async function
  accessToken,  \* attempt -> local `accessToken` (line 66)
  calls,        \* attempt -> collaborators invoked so far, in order
  posts,        \* attempt -> HTTP requests handed to fetch (line 114), in order
  authorized,   \* attempt -> how authorize() settled ("unset" before it has)
  response,     \* attempt -> what fetch() settled with (empty before it has)
  verified,     \* attempt -> what the verifier settled with ("unset" before it has)
  extracted,    \* attempt -> what the extractor returned (empty before it has)
  warned,       \* attempt -> console.warn of line 126 was issued
  error,        \* attempt -> the Error the promise rejected with
  result,       \* attempt -> the credentials the promise resolved with
  cbag,         \* the parameter bag handed to a request shape check
  creq,         \* the value handed to isChapiCredentialRequest directly
  ccall,        \* the shape check that was called ("none" before the call)
  cresult,      \* what that call returned or threw
  selected,     \* ShareHomeScreen: the `selected` state (line 14), latest value set
  rendered,     \* ShareHomeScreen: the `selected` the mounted render's closures hold
  toggles       \* ShareHomeScreen: index -> number of toggle(index) calls since mount

exchangeVars ==
  <<params, pc, accessToken, calls, posts, authorized, response, verified, extracted,
    warned, error, result>>
classifierVars == <<cbag, creq, ccall, cresult>>
screenVars == <<selected, rendered, toggles>>

vars == <<exchangeVars, classifierVars, screenVars>>

----------------------------------------------------------------------------
(* Values *)

\* JavaScript `undefined`: a missing key of the parameter bag, an unassigned local.
Undefined == "<undefined>"

\* Longest credential list the extractor returns in the model.
MaxCreds == 2

\* auth_type values a parameter bag may carry (absent, the two supported
\* ones, and unsupported ones: wrong case, empty, another scheme).
AuthTypes == {Undefined, "code", "bearer", "Code", "", "basic"}

\* Issuers of the registry, and the issuers a bag may name.
Registry == {"issuer.registered"}
Issuers == {Undefined, "issuer.registered", "issuer.unknown"}

Urls == {Undefined, "https://issuer.example/vc"}
Challenges == {Undefined, "abc123"}

\* CredentialRequestParams as received at run time: any key may be missing.
ParamBags ==
  [auth_type : AuthTypes, issuer : Issuers, vc_request_url : Urls, challenge : Challenges]

\* The wallet's DID record (second argument of requestCredential).
DidRecord == "did:key:holder"

\* What authorize() settles with: a rejection, or {accessToken: string}.
Tokens == {"", "tokA", "tokB"}
AuthorizeResults ==
  {[rejected |-> TRUE, accessToken |-> Undefined]}
    \cup {[rejected |-> FALSE, accessToken |-> t] : t \in Tokens}

\* What fetch() settles with: a rejection (network error) or a Response.
Statuses == {199, 200, 204, 299, 300, 404, 500}
FetchResults ==
  {[rejected |-> TRUE, status |-> 0]}
    \cup {[rejected |-> FALSE, status |-> s] : s \in Statuses}

\* What verifyVerifiableObject() settles with.
VerifyResults == {"true", "false", "throws"}

\* What extractCredentialsFrom() returns: null, or a list of credentials.
Credentials == {"vc1", "vc2"}
RECURSIVE SeqsUpTo(_, _)
SeqsUpTo(S, n) ==
  IF n = 0 THEN {<<>>}
  ELSE LET shorter == SeqsUpTo(S, n - 1)
       IN shorter \cup {Append(s, c) : s \in {t \in shorter : Len(t) = n - 1}, c \in S}
ExtractResults ==
  {[null |-> TRUE, credentials |-> <<>>]}
    \cup {[null |-> FALSE, credentials |-> s] : s \in SeqsUpTo(Credentials, MaxCreds)}

\* Error values.  The code throws plain Errors told apart by their message;
\* `kind` names the message, `detail` the value interpolated into it.
NoError == [kind |-> "none", detail |-> ""]
Err(kind, detail) == [kind |-> kind, detail |-> detail]

----------------------------------------------------------------------------
(* JavaScript values and JSON text, for the request shape checks *)

\* JavaScript `null` as the value of a bag key.
Null == "<null>"

\* Values as JSON.parse produces them (plus undefined), tagged by type.
JUndefined == [t |-> "undefined"]
JNull == [t |-> "null"]
JBool(b) == [t |-> "boolean", b |-> b]
JNum(n) == [t |-> "number", n |-> n]
JStr(x) == [t |-> "string", s |-> x]
JObj(f) == [t |-> "object", fields |-> f]

\* Truthiness of a value (`request || {}`, `!!protocols[field]`).
JsTruthy(v) ==
  CASE v.t = "undefined" -> FALSE
    [] v.t = "null" -> FALSE
    [] v.t = "boolean" -> v.b
    [] v.t = "number" -> v.n # 0
    [] v.t = "string" -> v.s # ""
    [] OTHER -> TRUE

\* Reading a property throws a TypeError on undefined and null only.
CanRead(v) == v.t \notin {"undefined", "null"}

\* v[key] for a value that can be read: own keys of an object, undefined otherwise.
Get(v, key) ==
  IF v.t = "object" /\ key \in DOMAIN v.fields THEN v.fields[key] ELSE JUndefined

\* JSON text is a sequence of tokens: punctuation and literals ("p"), string
\* literals ("s") and number literals ("n").
Tok(k, v) == [k |-> k, v |-> v]
P(v) == Tok("p", v)

\* Keys are written in this order.
KeyOrder == <<"credentialRequestOrigin", "protocols", "OID4VCI", "OID4VP", "vcapi", "other">>

NumText(n) == IF n = 0 THEN "0" ELSE "1"
NumOf(text) == IF text = "0" THEN 0 ELSE 1

\* JSON.stringify of a value.
RECURSIVE Encode(_)
RECURSIVE EncodeMembers(_, _, _)
Encode(v) ==
  CASE v.t = "null" -> <<P("null")>>
    [] v.t = "boolean" -> <<P(IF v.b THEN "true" ELSE "false")>>
    [] v.t = "number" -> <<Tok("n", NumText(v.n))>>
    [] v.t = "string" -> <<Tok("s", v.s)>>
    [] v.t = "object" -> <<P("{")>> \o EncodeMembers(v.fields, 1, TRUE) \o <<P("}")>>
EncodeMembers(f, i, first) ==
  IF i > Len(KeyOrder) THEN <<>>
  ELSE IF KeyOrder[i] \notin DOMAIN f THEN EncodeMembers(f, i + 1, first)
  ELSE (IF first THEN <<>> ELSE <<P(",")>>)
         \o <<Tok("s", KeyOrder[i]), P(":")>> \o Encode(f[KeyOrder[i]])
         \o EncodeMembers(f, i + 1, FALSE)

\* JSON.parse of a text: a recursive-descent parse of one value.  The result
\* says whether a value was read, the value, and the tokens left over.
ParseFailed == [ok |-> FALSE, value |-> JUndefined, rest |-> <<>>]
ParsedValue(v, rest) == [ok |-> TRUE, value |-> v, rest |-> rest]

RECURSIVE ParseValue(_)
RECURSIVE ParseMembers(_, _, _)
ParseValue(toks) ==
  IF Len(toks) = 0 THEN ParseFailed
  ELSE LET h == Head(toks)
           rest == Tail(toks)
       IN CASE h.k = "s" -> ParsedValue(JStr(h.v), rest)
            [] h.k = "n" -> ParsedValue(JNum(NumOf(h.v)), rest)
            [] h.k = "p" /\ h.v = "null" -> ParsedValue(JNull, rest)
            [] h.k = "p" /\ h.v = "true" -> ParsedValue(JBool(TRUE), rest)
            [] h.k = "p" /\ h.v = "false" -> ParsedValue(JBool(FALSE), rest)
            [] h.k = "p" /\ h.v = "{" -> ParseMembers(rest, <<>>, TRUE)
            [] OTHER -> ParseFailed
ParseMembers(toks, fields, first) ==
  IF Len(toks) = 0 THEN ParseFailed
  ELSE IF first /\ Head(toks) = P("}") THEN ParsedValue(JObj(fields), Tail(toks))
  ELSE IF Len(toks) < 3 \/ toks[1].k # "s" \/ toks[2] # P(":") THEN ParseFailed
  ELSE LET member == ParseValue(SubSeq(toks, 3, Len(toks)))
       IN IF ~member.ok \/ Len(member.rest) = 0 THEN ParseFailed
          ELSE LET added == (toks[1].v :> member.value) @@ fields
                   sep == Head(member.rest)
               IN IF sep = P("}") THEN ParsedValue(JObj(added), Tail(member.rest))
                  ELSE IF sep = P(",") THEN ParseMembers(Tail(member.rest), added, FALSE)
                  ELSE ParseFailed

\* JSON.parse(text): a value, or a SyntaxError when no value or more than one
\* value is read.
JsonParse(text) ==
  LET r == ParseValue(text)
  IN IF r.ok /\ Len(r.rest) = 0
     THEN [threw |-> FALSE, value |-> r.value]
     ELSE [threw |-> TRUE, value |-> JUndefined]

----------------------------------------------------------------------------
(* Pure parts of requestCredential *)

\* issuerAuthRegistry.isInRegistry
IsInRegistry(issuer) == issuer \in Registry

\* Variant: the registry guard is missing.
IssuerRejectedNever(issuer) == FALSE

\* Lines 70-72: the code flow throws when the issuer is not in the registry.
IssuerRejected(issuer) == ~IsInRegistry(issuer)

\* Line 20: `params || {}`; a bag that was not given reads as the empty bag.
ParamsOrEmpty(p) ==
  IF "given" \in DOMAIN p /\ ~p.given
  THEN [issuer |-> Undefined, vc_request_url |-> Undefined]
  ELSE p

\* Variant: the keys are tested for truthiness.
isCredentialRequestParamsTruthy(p) ==
  LET q == ParamsOrEmpty(p)
  IN /\ q.issuer \notin {Undefined, Null, ""}
     /\ q.vc_request_url \notin {Undefined, Null, ""}

\* Lines 19-22: both keys are present (not undefined).
isCredentialRequestParams(p) ==
  LET q == ParamsOrEmpty(p)
  IN q.issuer # Undefined /\ q.vc_request_url # Undefined

\* Variant: a missing auth_type is taken as 'bearer'.
AuthTypeOrDefaultBearer(p) == IF p.auth_type = Undefined THEN "bearer" ELSE p.auth_type

\* Destructuring default of line 58: only a missing auth_type becomes 'code'.
AuthTypeOrDefault(p) == IF p.auth_type = Undefined THEN "code" ELSE p.auth_type

\* Variant: the 'bearer' label falls into the code flow.
SwitchAuthTypeBearerAsCode(auth_type) ==
  CASE auth_type = "code" -> "code"
    [] auth_type = "bearer" -> "code"
    [] OTHER -> "default"

\* Variant: the default label does nothing instead of throwing.
SwitchAuthTypeLenient(auth_type) ==
  CASE auth_type = "code" -> "code"
    [] OTHER -> "bearer"

\* The switch of lines 68-94: which case label an auth_type selects.
SwitchAuthType(auth_type) ==
  CASE auth_type = "code" -> "code"
    [] auth_type = "bearer" -> "bearer"
    [] OTHER -> "default"

\* JavaScript truthiness of an optional string (`if (accessToken)`, line 104).
Truthy(v) == v # Undefined /\ v # ""

\* Variant: the Authorization header is attached without the `if`.
BuildHeadersAlways(token) ==
  ("Content-Type" :> "application/json") @@ ("Authorization" :> ("Bearer " \o token))

\* Lines 100-106: the headers of the submission.
BuildHeaders(token) ==
  IF Truthy(token)
  THEN ("Content-Type" :> "application/json") @@ ("Authorization" :> ("Bearer " \o token))
  ELSE ("Content-Type" :> "application/json")

\* createVerifiablePresentation({didRecord, challenge}) when it resolves.
Presentation(didRecord, challenge) == [holder |-> didRecord, challenge |-> challenge]

\* Lines 108-112: the request object handed to fetch.
BuildRequest(url, token, requestBody) ==
  [url |-> url, method |-> "POST", headers |-> BuildHeaders(token),
   body |-> <<"JSON", requestBody>>]

\* Variant: the request is sent a second time.
SubmitTwice(sent, request) == Append(Append(sent, request), request)

\* Line 114: fetch is called once with the request.
Submit(sent, request) == Append(sent, request)

\* Variant: the status is not looked at.
ResponseOkAlways(status) == TRUE

\* Variant: only 200 counts as success.
ResponseOkOnly200(status) == status = 200

\* Response.ok (line 116): the status is in the range 200-299.
ResponseOk(status) == status >= 200 /\ status <= 299

----------------------------------------------------------------------------
(* Initial state: each attempt has been handed a parameter bag. *)

InitWith(attempts) ==
  /\ params \in [attempts -> ParamBags]
  /\ pc = [a \in attempts |-> "Parsed"]
  /\ accessToken = [a \in attempts |-> Undefined]
  /\ calls = [a \in attempts |-> <<>>]
  /\ posts = [a \in attempts |-> <<>>]
  /\ authorized = [a \in attempts |-> "unset"]
  /\ response = [a \in attempts |-> <<>>]
  /\ verified = [a \in attempts |-> "unset"]
  /\ extracted = [a \in attempts |-> <<>>]
  /\ warned = [a \in attempts |-> FALSE]
  /\ error = [a \in attempts |-> NoError]
  /\ result = [a \in attempts |-> <<>>]

\* No shape check is under way and no screen is mounted.
NoBag == [given |-> FALSE, issuer |-> Undefined, vc_request_url |-> Undefined, request |-> <<>>]
NoResult == [threw |-> "", bool |-> FALSE, value |-> JUndefined, decodes |-> 0]
ClassifierIdle ==
  /\ cbag = NoBag
  /\ creq = JUndefined
  /\ ccall = "none"
  /\ cresult = NoResult
ScreenIdle ==
  /\ selected = <<>>
  /\ rendered = <<>>
  /\ toggles = <<>>

Init == InitWith({1}) /\ ClassifierIdle /\ ScreenIdle

Attempts == DOMAIN pc

\* Two attempts running concurrently, each with a well-formed bag of either flow.
ConcurrentBags ==
  {[auth_type |-> "code", issuer |-> "issuer.registered",
    vc_request_url |-> "https://issuer.example/vc", challenge |-> Undefined],
   [auth_type |-> "bearer", issuer |-> "issuer.registered",
    vc_request_url |-> "https://issuer.example/vc", challenge |-> "abc123"]}

InitConcurrent ==
  /\ InitWith({1, 2})
  /\ ClassifierIdle
  /\ ScreenIdle
  /\ \A a \in {1, 2} : params[a] \in ConcurrentBags

----------------------------------------------------------------------------
(* Steps of requestCredential *)

Fail(a, e) ==
  /\ pc' = [pc EXCEPT ![a] = "Failed"]
  /\ error' = [error EXCEPT ![a] = e]

Called(a, names) == calls' = [calls EXCEPT ![a] = @ \o names]

\* Variant: authorize is called at once, without awaiting the timer.
CodeFlowEntryNoDelay(issuer) ==
  [next |-> "Authorizing", names |-> <<"isInRegistry", "entryFor", "authorize">>]

\* Lines 73-75: a registered issuer's entry is read and the 1000 ms timer is
\* started; the function suspends until it fires.
CodeFlowEntry(issuer) ==
  [next |-> "Delay", names |-> <<"isInRegistry", "entryFor", "setTimeout">>]

\* Lines 56-96 up to the first await: destructuring and the auth_type switch.
Start(a) ==
  /\ pc[a] = "Parsed"
  /\ LET p == params[a]
         auth_type == AuthTypeOrDefault(p)
         branch == SwitchAuthType(auth_type)
     IN CASE branch = "code" ->
               IF IssuerRejected(p.issuer)
               THEN /\ Fail(a, Err("IssuerNotRegistered", p.issuer))
                    /\ Called(a, <<"isInRegistry">>)
               ELSE /\ pc' = [pc EXCEPT ![a] = CodeFlowEntry(p.issuer).next]
                    /\ Called(a, CodeFlowEntry(p.issuer).names)
                    /\ UNCHANGED error
          [] branch = "bearer" ->
               /\ pc' = [pc EXCEPT ![a] = "Presenting"]
               /\ Called(a, <<"createVerifiablePresentation">>)
               /\ UNCHANGED error
          [] OTHER ->
               /\ Fail(a, Err("UnsupportedAuthType", auth_type))
               /\ UNCHANGED calls
  /\ UNCHANGED <<params, accessToken, posts, authorized, response, verified, extracted,
                 warned, result>>

\* Lines 75-80: the 1000 ms timer fires and authorize(oidcConfig) is called.
DelayElapsed(a) ==
  /\ pc[a] = "Delay"
  /\ pc' = [pc EXCEPT ![a] = "Authorizing"]
  /\ Called(a, <<"authorize">>)
  /\ UNCHANGED <<params, accessToken, posts, authorized, response, verified, extracted,
                 warned, error, result>>

\* Variant: the catch swallows the rejection and the flow goes on without a token.
OnAuthorizeSettledSwallow(r) ==
  [next |-> "Presenting", token |-> r.accessToken, error |-> NoError]

\* Lines 80-86: what the try/catch around authorize does with its settlement.
OnAuthorizeSettled(r) ==
  IF r.rejected
  THEN [next |-> "Failed", token |-> Undefined, error |-> Err("AuthorizationFailed", "")]
  ELSE [next |-> "Presenting", token |-> r.accessToken, error |-> NoError]

\* Lines 80-96: authorize settles; on success the presentation is requested.
AuthorizeSettled(a) ==
  /\ pc[a] = "Authorizing"
  /\ \E r \in AuthorizeResults :
       LET o == OnAuthorizeSettled(r)
       IN /\ pc' = [pc EXCEPT ![a] = o.next]
          /\ authorized' = [authorized EXCEPT ![a] = IF r.rejected THEN "rejected" ELSE "resolved"]
          /\ accessToken' = [accessToken EXCEPT ![a] = o.token]
          /\ error' = [error EXCEPT ![a] = o.error]
          /\ IF o.next = "Presenting"
             THEN Called(a, <<"createVerifiablePresentation">>)
             ELSE UNCHANGED calls
  /\ UNCHANGED <<params, posts, response, verified, extracted, warned, result>>

\* Variant: accessToken is a module-level variable shared by all attempts.
TokenOfShared(a) ==
  IF \E b \in Attempts : accessToken[b] # Undefined
  THEN accessToken[CHOOSE b \in Attempts : accessToken[b] # Undefined]
  ELSE Undefined

\* Line 66: accessToken is a local of the call, read at line 104.
TokenOf(a) == accessToken[a]

\* Lines 96-114: the presentation settles; on success the POST is issued.
PresentationSettled(a) ==
  /\ pc[a] = "Presenting"
  /\ \/ /\ Fail(a, Err("PresentationBuildError", ""))
        /\ UNCHANGED <<calls, posts>>
     \/ LET p == params[a]
            requestBody == Presentation(DidRecord, p.challenge)
        IN /\ posts' = [posts EXCEPT ![a] =
                          Submit(@, BuildRequest(p.vc_request_url, TokenOf(a), requestBody))]
           /\ pc' = [pc EXCEPT ![a] = "AwaitingResponse"]
           /\ Called(a, <<"fetch">>)
           /\ UNCHANGED error
  /\ UNCHANGED <<params, accessToken, authorized, response, verified, extracted,
                 warned, result>>

\* Lines 114-121: fetch settles; a response that is ok is handed to parseResponseBody.
FetchSettled(a) ==
  /\ pc[a] = "AwaitingResponse"
  /\ \E r \in FetchResults :
       /\ response' = [response EXCEPT ![a] = <<r>>]
       /\ IF r.rejected
          THEN /\ Fail(a, Err("FetchRejected", ""))
               /\ UNCHANGED calls
          ELSE IF ~ResponseOk(r.status)
          THEN /\ Fail(a, Err("IssuerResponseError", ""))
               /\ UNCHANGED calls
          ELSE /\ pc' = [pc EXCEPT ![a] = "Decoding"]
               /\ Called(a, <<"parseResponseBody">>)
               /\ UNCHANGED error
  /\ UNCHANGED <<params, accessToken, posts, authorized, verified, extracted, warned, result>>

\* Lines 121-124: the body is decoded (or not) and the verifier is called.
ParseSettled(a) ==
  /\ pc[a] = "Decoding"
  /\ \/ /\ Fail(a, Err("ResponseParseError", ""))
        /\ UNCHANGED calls
     \/ /\ pc' = [pc EXCEPT ![a] = "Verifying"]
        /\ Called(a, <<"verifyVerifiableObject">>)
        /\ UNCHANGED error
  /\ UNCHANGED <<params, accessToken, posts, authorized, response, verified, extracted,
                 warned, result>>

\* Variant: a verifier result of false aborts the attempt.
OnVerifiedStrict(isVerified, creds) ==
  IF ~isVerified
  THEN [next |-> "Failed", warn |-> TRUE, credentials |-> <<>>,
        error |-> Err("VerificationFailed", "")]
  ELSE IF creds.null
  THEN [next |-> "Failed", warn |-> FALSE, credentials |-> <<>>,
        error |-> Err("NoCredentialsReturned", "")]
  ELSE [next |-> "Done", warn |-> FALSE, credentials |-> creds.credentials,
        error |-> NoError]

\* Variant: an empty extraction is treated like a null one.
OnVerifiedEmptyIsError(isVerified, creds) ==
  IF creds.null \/ Len(creds.credentials) = 0
  THEN [next |-> "Failed", warn |-> ~isVerified, credentials |-> <<>>,
        error |-> Err("NoCredentialsReturned", "")]
  ELSE [next |-> "Done", warn |-> ~isVerified, credentials |-> creds.credentials,
        error |-> NoError]

\* Variant: a null extraction is returned as an empty list.
OnVerifiedNullAsEmpty(isVerified, creds) ==
  [next |-> "Done", warn |-> ~isVerified, credentials |-> creds.credentials,
   error |-> NoError]

\* Lines 125-134: what follows a verifier that returned `isVerified`, given
\* what the extractor returns.
OnVerified(isVerified, creds) ==
  IF creds.null
  THEN [next |-> "Failed", warn |-> ~isVerified, credentials |-> <<>>,
        error |-> Err("NoCredentialsReturned", "")]
  ELSE [next |-> "Done", warn |-> ~isVerified, credentials |-> creds.credentials,
        error |-> NoError]

\* Lines 124-134: the verifier settles; extraction is synchronous after it.
VerifySettled(a) ==
  /\ pc[a] = "Verifying"
  /\ \E v \in VerifyResults :
       /\ verified' = [verified EXCEPT ![a] = v]
       /\ IF v = "throws"
          THEN /\ Fail(a, Err("VerificationInputError", ""))
               /\ UNCHANGED <<calls, extracted, warned, result>>
          ELSE \E x \in ExtractResults :
                 LET o == OnVerified(v = "true", x)
                 IN /\ extracted' = [extracted EXCEPT ![a] = <<x>>]
                    /\ pc' = [pc EXCEPT ![a] = o.next]
                    /\ warned' = [warned EXCEPT ![a] = o.warn]
                    /\ error' = [error EXCEPT ![a] = o.error]
                    /\ result' = [result EXCEPT ![a] = o.credentials]
                    /\ Called(a, <<"extractCredentialsFrom">>)
  /\ UNCHANGED <<params, accessToken, posts, authorized, response>>

Next ==
  /\ \E a \in Attempts :
       \/ Start(a)
       \/ DelayElapsed(a)
       \/ AuthorizeSettled(a)
       \/ PresentationSettled(a)
       \/ FetchSettled(a)
       \/ ParseSettled(a)
       \/ VerifySettled(a)
  /\ UNCHANGED <<classifierVars, screenVars>>

Spec == Init /\ [][Next]_vars

SpecConcurrent == InitConcurrent /\ [][Next]_vars

TypeOK ==
  /\ params \in [Attempts -> ParamBags]
  /\ \A a \in Attempts :
       /\ pc[a] \in {"Parsed", "Delay", "Authorizing", "Presenting", "AwaitingResponse",
                     "Decoding", "Verifying", "Done", "Failed"}
       /\ accessToken[a] \in Tokens \cup {Undefined}
       /\ Len(posts[a]) >= 0
       /\ authorized[a] \in {"unset", "rejected", "resolved"}
       /\ response[a] \in SeqsUpTo(FetchResults, 1)
       /\ verified[a] \in {"unset"} \cup VerifyResults
       /\ extracted[a] \in SeqsUpTo(ExtractResults, 1)
       /\ result[a] \in SeqsUpTo(Credentials, MaxCreds)
       /\ warned[a] \in BOOLEAN
       /\ (pc[a] = "Failed") <=> (error[a] # NoError)

----------------------------------------------------------------------------
(* The request shape checks (lines 19-54) *)

\* What a call returned or threw; `decodes` counts the calls of JSON.parse.
Returned(b, n) == [threw |-> "", bool |-> b, value |-> JUndefined, decodes |-> n]
ReturnedValue(v, n) == [threw |-> "", bool |-> FALSE, value |-> v, decodes |-> n]
Threw(kind, n) == [threw |-> kind, bool |-> FALSE, value |-> JUndefined, decodes |-> n]

\* `!requestString` (line 26): the key is missing or holds the empty string.
NoRequestString(p) == Len(p.request) = 0 \/ Len(p.request[1]) = 0

\* Variant: only a missing key is rejected, the empty string is handed to JSON.parse.
getChapiCredentialRequestUndefinedOnly(p) ==
  IF ~p.given THEN Threw("TypeError", 0)
  ELSE IF Len(p.request) = 0 THEN Threw("MalformedRequest", 0)
  ELSE LET r == JsonParse(p.request[1])
       IN IF r.threw THEN Threw("SyntaxError", 1) ELSE ReturnedValue(r.value, 1)

\* Lines 24-30: getChapiCredentialRequest.  Destructuring a bag that was not
\* given throws a TypeError.
getChapiCredentialRequest(p) ==
  IF ~p.given THEN Threw("TypeError", 0)
  ELSE IF NoRequestString(p) THEN Threw("MalformedRequest", 0)
  ELSE LET r == JsonParse(p.request[1])
       IN IF r.threw THEN Threw("SyntaxError", 1) ELSE ReturnedValue(r.value, 1)

\* The protocol fields of lines 45-49.
ProtocolFields == {"OID4VCI", "OID4VP", "vcapi"}

\* Lines 37-54: isChapiCredentialRequest.  protocols[field] throws a
\* TypeError when protocols is null.
isChapiCredentialRequest(request) ==
  LET r == IF JsTruthy(request) THEN request ELSE JObj(<<>>)
      credentialRequestOrigin == Get(r, "credentialRequestOrigin")
      protocols == Get(r, "protocols")
      hasChapiCredentialRequestFields ==
        credentialRequestOrigin.t # "undefined" /\ protocols.t # "undefined"
  IN IF ~hasChapiCredentialRequestFields THEN Returned(FALSE, 0)
     ELSE IF ~CanRead(protocols) THEN Threw("TypeError", 0)
     ELSE Returned(\E field \in ProtocolFields : JsTruthy(Get(protocols, field)), 0)

\* Lines 32-35: isChapiCredentialRequestParams; nothing is caught.
isChapiCredentialRequestParams(p) ==
  LET request == getChapiCredentialRequest(p)
  IN IF request.threw # "" THEN request
     ELSE LET r == isChapiCredentialRequest(request.value)
          IN [r EXCEPT !.decodes = request.decodes]

\* Inputs.  Values of the issuer and vc_request_url keys: missing, null,
\* empty and a proper string.
KeyValues == {Undefined, Null, "", "issuer.registered"}

\* protocols maps: every choice of a truthy or an empty string for some of
\* the keys, and maps holding other falsy and truthy values.
ProtocolKeys == {"OID4VCI", "OID4VP", "vcapi", "other"}
ProtocolMaps ==
  UNION {[keys -> {JStr("https://issuer.example/exchange"), JStr("")}] :
           keys \in SUBSET ProtocolKeys}
    \cup {"vcapi" :> JNull, "OID4VP" :> JNum(0), "OID4VP" :> JBool(FALSE),
          "OID4VCI" :> JObj(<<>>), "other" :> JNum(1)}

Origins == {JStr("https://rp.example"), JStr(""), JNull}
ProtocolsValues ==
  {JNull, JStr("vcapi"), JNum(1), JBool(TRUE)} \cup {JObj(m) : m \in ProtocolMaps}

\* The values a request text decodes to.
RequestValues ==
  {JNull, JNum(0), JNum(1), JStr("vcapi"), JBool(TRUE), JObj(<<>>)}
    \cup {JObj("credentialRequestOrigin" :> o) : o \in Origins}
    \cup {JObj("protocols" :> q) : q \in ProtocolsValues}
    \cup {JObj(("credentialRequestOrigin" :> o) @@ ("protocols" :> q)) :
            o \in Origins, q \in ProtocolsValues}

\* Texts that are not JSON: cut short, a trailing comma, a missing colon, two
\* values, a stray brace.
BrokenTexts ==
  {<<P("{")>>,
   <<P("{"), Tok("s", "protocols"), P(":"), P("null"), P(","), P("}")>>,
   <<P("{"), Tok("s", "protocols"), P("null"), P("}")>>,
   <<P("null"), P("null")>>,
   <<P("}")>>,
   <<P("{"), Tok("s", "protocols"), P(":")>>}

\* The `request` key: missing, or a string (the empty one, JSON, not JSON).
RequestStrings ==
  {<<>>, << <<>> >>} \cup {<<Encode(v)>> : v \in RequestValues}
    \cup {<<text>> : text \in BrokenTexts}

ClassifierBags ==
  {NoBag} \cup
  [given : {TRUE}, issuer : KeyValues, vc_request_url : KeyValues, request : {<<>>}] \cup
  [given : {TRUE}, issuer : {Undefined, "issuer.registered"},
   vc_request_url : {Undefined}, request : RequestStrings]

InitClassifier ==
  /\ InitWith({})
  /\ ScreenIdle
  /\ ccall = "none"
  /\ cresult = NoResult
  /\ \/ cbag \in ClassifierBags /\ creq = JUndefined
     \/ cbag = NoBag /\ creq \in RequestValues

Call(name, r) ==
  /\ ccall = "none"
  /\ ccall' = name
  /\ cresult' = r
  /\ UNCHANGED <<cbag, creq, exchangeVars, screenVars>>

CallIsCredentialRequestParams ==
  Call("isCredentialRequestParams", Returned(isCredentialRequestParams(cbag), 0))

CallGetChapiCredentialRequest ==
  Call("getChapiCredentialRequest", getChapiCredentialRequest(cbag))

CallIsChapiCredentialRequestParams ==
  Call("isChapiCredentialRequestParams", isChapiCredentialRequestParams(cbag))

CallIsChapiCredentialRequest ==
  Call("isChapiCredentialRequest", isChapiCredentialRequest(creq))

NextClassifier ==
  \/ CallIsCredentialRequestParams
  \/ CallGetChapiCredentialRequest
  \/ CallIsChapiCredentialRequestParams
  \/ CallIsChapiCredentialRequest

SpecClassifier == InitClassifier /\ [][NextClassifier]_vars

----------------------------------------------------------------------------
(* ShareHomeScreen: the list of selected credentials (ShareHomeScreen.tsx) *)

\* Number of credentials in the wallet, and of toggle calls that are followed.
NumCredentials == 3
MaxToggles == 4

\* The indices FlatList hands to renderItem.
Indices == 0..(NumCredentials - 1)

\* selected.includes(credentialIndex)
Includes(list, i) == \E k \in 1..Len(list) : list[k] = i

\* selected.filter(i => i !== credentialIndex)
Without(list, i) == SelectSeq(list, LAMBDA x : x # i)

\* Lines 20-24: the value toggle hands to setSelected, computed from the
\* `selected` its closure holds.
Toggled(captured, credentialIndex) ==
  IF Includes(captured, credentialIndex)
  THEN Without(captured, credentialIndex)
  ELSE Append(captured, credentialIndex)

RECURSIVE CountUpTo(_, _)
CountUpTo(f, n) == IF n < 0 THEN 0 ELSE f[n] + CountUpTo(f, n - 1)

\* The screen is mounted: useState([]) and the first render.
InitScreen ==
  /\ InitWith({})
  /\ ClassifierIdle
  /\ selected = <<>>
  /\ rendered = <<>>
  /\ toggles = [i \in Indices |-> 0]

\* Lines 19-25 and 39: onSelect of the mounted render calls toggle(index),
\* whose closure reads that render's `selected`; setSelected replaces the state.
toggle(credentialIndex) ==
  /\ CountUpTo(toggles, NumCredentials - 1) < MaxToggles
  /\ selected' = Toggled(rendered, credentialIndex)
  /\ toggles' = [toggles EXCEPT ![credentialIndex] = @ + 1]
  /\ UNCHANGED <<rendered, exchangeVars, classifierVars>>

\* Lines 13-14 and 27-44: the component renders again with the current state,
\* and new toggle and renderItem closures replace the old ones.
Render ==
  /\ rendered # selected
  /\ rendered' = selected
  /\ UNCHANGED <<selected, toggles, exchangeVars, classifierVars>>

NextScreen ==
  \/ \E credentialIndex \in Indices : toggle(credentialIndex)
  \/ Render

SpecScreen == InitScreen /\ [][NextScreen]_vars

----------------------------------------------------------------------------
(* Properties of the exchange *)

Invoked(a, name) == \E i \in 1..Len(calls[a]) : calls[a][i] = name

HasAuthorization(request) == "Authorization" \in DOMAIN request.headers

Is2xx(status) == status \in 200..299

\* C1: an attempt with auth_type = "bearer" never invokes authorize, and any
\* request it submits carries no Authorization header.
C1_BearerNoAuthorization ==
  \A a \in Attempts :
    params[a].auth_type = "bearer" =>
      /\ ~Invoked(a, "authorize")
      /\ authorized[a] = "unset"
      /\ \A i \in 1..Len(posts[a]) : ~HasAuthorization(posts[a][i])

C1_Witness ==
  \E a \in Attempts :
    /\ params[a].auth_type = "bearer"
    /\ Len(posts[a]) = 1
    /\ pc[a] = "Done"

\* C2 as stated: a submitted request carries Authorization iff authorize
\* resolved with a token in this attempt, whatever the token, and then the
\* header is "Bearer <token>".
C2_HeaderIffTokenAcquired ==
  \A a \in Attempts : \A i \in 1..Len(posts[a]) :
    /\ HasAuthorization(posts[a][i]) <=> authorized[a] = "resolved"
    /\ HasAuthorization(posts[a][i]) =>
         posts[a][i].headers["Authorization"] = "Bearer " \o accessToken[a]

\* C2 amended: a submitted request carries Authorization iff authorize
\* resolved with a non-empty token in this attempt, and then the header is
\* "Bearer <token>" with exactly that token.
C2_HeaderIffNonEmptyToken ==
  \A a \in Attempts : \A i \in 1..Len(posts[a]) :
    /\ HasAuthorization(posts[a][i]) <=>
         (authorized[a] = "resolved" /\ accessToken[a] # "")
    /\ HasAuthorization(posts[a][i]) =>
         posts[a][i].headers["Authorization"] = "Bearer " \o accessToken[a]
    /\ authorized[a] # "resolved" => accessToken[a] = Undefined

C2_Witness ==
  \E a \in Attempts :
    /\ authorized[a] = "resolved"
    /\ accessToken[a] = "tokA"
    /\ Len(posts[a]) = 1
    /\ HasAuthorization(posts[a][1])
    /\ posts[a][1].headers["Authorization"] = "Bearer tokA"

\* C3: when the verifier returned false the extractor is still called; a
\* non-null extraction then ends the attempt in Done with those credentials,
\* and the attempt fails only when the extraction is null.
C3_VerifyFalseIsAdvisory ==
  \A a \in Attempts :
    verified[a] = "false" =>
      /\ Invoked(a, "extractCredentialsFrom")
      /\ Len(extracted[a]) = 1
      /\ ~extracted[a][1].null =>
           (pc[a] = "Done" /\ result[a] = extracted[a][1].credentials)
      /\ pc[a] = "Failed" =>
           (extracted[a][1].null /\ error[a].kind = "NoCredentialsReturned")

C3_Witness ==
  \E a \in Attempts :
    /\ verified[a] = "false"
    /\ warned[a]
    /\ pc[a] = "Done"
    /\ Len(result[a]) >= 1

\* C4: with auth_type = "code" and an issuer outside the registry, the
\* attempt fails with IssuerNotRegistered as soon as it runs, and authorize,
\* the presentation builder and fetch are never called.
C4_UnknownIssuerAborts ==
  \A a \in Attempts :
    (params[a].auth_type = "code" /\ params[a].issuer \notin Registry) =>
      /\ pc[a] \in {"Parsed", "Failed"}
      /\ pc[a] = "Failed" => error[a] = Err("IssuerNotRegistered", params[a].issuer)
      /\ ~Invoked(a, "setTimeout")
      /\ ~Invoked(a, "authorize")
      /\ ~Invoked(a, "createVerifiablePresentation")
      /\ ~Invoked(a, "fetch")
      /\ Len(posts[a]) = 0

C4_Witness ==
  \E a \in Attempts :
    /\ params[a].auth_type = "code"
    /\ params[a].issuer = "issuer.unknown"
    /\ pc[a] = "Failed"
    /\ calls[a] = <<"isInRegistry">>

\* C5: with auth_type = "code" and a registered issuer, a rejected authorize
\* fails the attempt with AuthorizationFailed; no token is held, and the
\* presentation builder and fetch are never called.
C5_AuthorizationFailureAborts ==
  \A a \in Attempts :
    (params[a].auth_type = "code" /\ params[a].issuer \in Registry
       /\ authorized[a] = "rejected") =>
      /\ pc[a] = "Failed"
      /\ error[a].kind = "AuthorizationFailed"
      /\ accessToken[a] = Undefined
      /\ ~Invoked(a, "createVerifiablePresentation")
      /\ ~Invoked(a, "fetch")
      /\ Len(posts[a]) = 0

C5_Witness ==
  \E a \in Attempts :
    /\ params[a].auth_type = "code"
    /\ params[a].issuer \in Registry
    /\ authorized[a] = "rejected"
    /\ Invoked(a, "authorize")

\* C6: a response with a status outside 200..299 fails the attempt with
\* IssuerResponseError and decode, verify and extract are never called; a
\* response with a status in 200..299 is handed to the decoder.
C6_Non2xxAborts ==
  \A a \in Attempts :
    (Len(response[a]) = 1 /\ ~response[a][1].rejected) =>
      IF Is2xx(response[a][1].status)
      THEN /\ Invoked(a, "parseResponseBody")
           /\ error[a].kind # "IssuerResponseError"
      ELSE /\ pc[a] = "Failed"
           /\ error[a].kind = "IssuerResponseError"
           /\ ~Invoked(a, "parseResponseBody")
           /\ ~Invoked(a, "verifyVerifiableObject")
           /\ ~Invoked(a, "extractCredentialsFrom")

C6_Witness ==
  \E a \in Attempts :
    /\ Len(response[a]) = 1
    /\ response[a][1].status = 404
    /\ pc[a] = "Failed"

\* C7: when the extractor returned null the attempt has failed with
\* NoCredentialsReturned, whether the verifier returned true or false.
C7_NullExtractionFails ==
  \A a \in Attempts :
    (Len(extracted[a]) = 1 /\ extracted[a][1].null) =>
      /\ pc[a] = "Failed"
      /\ error[a].kind = "NoCredentialsReturned"
      /\ verified[a] \in {"true", "false"}

C7_Witness ==
  \E a \in Attempts :
    /\ Len(extracted[a]) = 1
    /\ extracted[a][1].null
    /\ verified[a] = "true"
    /\ pc[a] = "Failed"

\* C8: an attempt whose auth_type is present and is neither "code" nor
\* "bearer" fails in its first step with UnsupportedAuthType naming the value,
\* and no collaborator (registry, timer, authorize, presentation builder,
\* fetch) is ever called.
C8_UnsupportedAuthTypeAborts ==
  \A a \in Attempts :
    params[a].auth_type \notin {Undefined, "code", "bearer"} =>
      /\ pc[a] \in {"Parsed", "Failed"}
      /\ pc[a] = "Failed" => error[a] = Err("UnsupportedAuthType", params[a].auth_type)
      /\ calls[a] = <<>>
      /\ Len(posts[a]) = 0

C8_Witness ==
  \E a \in Attempts :
    /\ params[a].auth_type = "Code"
    /\ pc[a] = "Failed"
    /\ error[a].kind = "UnsupportedAuthType"

\* C9: an attempt issues at most one POST, an attempt that is Done has issued
\* exactly one, and once an attempt has failed (a non-2xx response included)
\* it issues no further POST.
C9_SinglePost ==
  /\ [](\A a \in Attempts :
          /\ Len(posts[a]) <= 1
          /\ pc[a] = "Done" => Len(posts[a]) = 1
          /\ (Len(response[a]) = 1 /\ ~Is2xx(response[a][1].status)) =>
               (pc[a] = "Failed" /\ Len(posts[a]) = 1))
  /\ [][\A a \in Attempts : pc[a] \in {"Failed", "Done"} => posts'[a] = posts[a]]_vars

C9_Witness ==
  \E a \in Attempts :
    /\ Len(response[a]) = 1
    /\ response[a][1].status = 500
    /\ pc[a] = "Failed"
    /\ Len(posts[a]) = 1

\* C10: an attempt whose parameter bag matches no recognized shape (it lacks
\* issuer or vc_request_url, and carries no CHAPI `request`) is aborted with
\* MalformedRequest, and neither authorize nor fetch is ever called for it.
C10_MalformedAbortsBeforeNetwork ==
  \A a \in Attempts :
    ~isCredentialRequestParams(params[a]) =>
      /\ pc[a] \in {"Parsed", "Failed"}
      /\ pc[a] = "Failed" => error[a].kind = "MalformedRequest"
      /\ ~Invoked(a, "authorize")
      /\ ~Invoked(a, "fetch")
      /\ Len(posts[a]) = 0

IsPrefix(s, t) == Len(s) <= Len(t) /\ \A i \in 1..Len(s) : s[i] = t[i]

\* The order of the collaborator calls in the code flow and in the bearer flow.
CodeOrder ==
  <<"isInRegistry", "entryFor", "setTimeout", "authorize", "createVerifiablePresentation",
    "fetch", "parseResponseBody", "verifyVerifiableObject", "extractCredentialsFrom">>
BearerOrder ==
  <<"createVerifiablePresentation", "fetch", "parseResponseBody",
    "verifyVerifiableObject", "extractCredentialsFrom">>

\* C15: the collaborator calls of an attempt are a prefix of the fixed order
\* (registry, delay and authorize in the code flow only), so each is called
\* at most once; a collaborator is called only after its predecessor settled
\* successfully (a verifier result of false included); and an attempt that is
\* Done or Failed calls nothing more.
C15_FixedCallOrder ==
  /\ [](\A a \in Attempts :
          /\ IF AuthTypeOrDefault(params[a]) = "code"
             THEN IsPrefix(calls[a], CodeOrder)
             ELSE IsPrefix(calls[a], BearerOrder)
          /\ Invoked(a, "createVerifiablePresentation") =>
               (Invoked(a, "authorize") => authorized[a] = "resolved")
          /\ Invoked(a, "parseResponseBody") =>
               (Len(response[a]) = 1 /\ ~response[a][1].rejected
                  /\ Is2xx(response[a][1].status))
          /\ Invoked(a, "extractCredentialsFrom") => verified[a] \in {"true", "false"}
          /\ Invoked(a, "fetch") => Len(posts[a]) = 1)
  /\ [][\A a \in Attempts : pc[a] \in {"Done", "Failed"} => calls'[a] = calls[a]]_vars

C15_Witness ==
  \E a \in Attempts :
    /\ calls[a] = CodeOrder
    /\ verified[a] = "false"
    /\ pc[a] = "Done"

\* C16: in the code flow authorize is called only by the step that runs when
\* the settling timer has fired, the timer is started only for an issuer found
\* in the registry, and the bearer flow starts no timer.
C16_DelayBeforeAuthorize ==
  /\ [](\A a \in Attempts :
          /\ Invoked(a, "setTimeout") =>
               (IsInRegistry(params[a].issuer)
                  /\ IsPrefix(<<"isInRegistry", "entryFor", "setTimeout">>, calls[a]))
          /\ Invoked(a, "authorize") =>
               IsPrefix(<<"isInRegistry", "entryFor", "setTimeout", "authorize">>, calls[a])
          /\ pc[a] = "Delay" => ~Invoked(a, "authorize")
          /\ params[a].auth_type = "bearer" => ~Invoked(a, "setTimeout"))
  /\ [][\A a \in Attempts :
          (~Invoked(a, "authorize") /\ "authorize" \in {calls'[a][i] : i \in 1..Len(calls'[a])})
            => (pc[a] = "Delay" /\ Invoked(a, "setTimeout"))]_vars

C16_Witness ==
  \E a \in Attempts :
    /\ pc[a] = "Authorizing"
    /\ calls[a] = <<"isInRegistry", "entryFor", "setTimeout", "authorize">>

\* C18: when the extractor returned a list, the empty list included, the
\* attempt is Done and its result is exactly that list.
C18_ExtractedListReturned ==
  \A a \in Attempts :
    (Len(extracted[a]) = 1 /\ ~extracted[a][1].null) =>
      /\ pc[a] = "Done"
      /\ result[a] = extracted[a][1].credentials
      /\ error[a] = NoError

C18_Witness ==
  \E a \in Attempts :
    /\ Len(extracted[a]) = 1
    /\ ~extracted[a][1].null
    /\ extracted[a][1].credentials = <<>>
    /\ pc[a] = "Done"

\* C19: an attempt without auth_type runs the code flow: its first call is
\* the registry lookup, an issuer outside the registry fails it with
\* IssuerNotRegistered, the presentation is built only after timer and a
\* resolved authorize, a submission carries the acquired token as the code
\* flow attaches it, and it never fails with UnsupportedAuthType.
C19_AbsentAuthTypeIsCode ==
  \A a \in Attempts :
    params[a].auth_type = Undefined =>
      /\ IsPrefix(calls[a], CodeOrder)
      /\ pc[a] # "Parsed" => Invoked(a, "isInRegistry")
      /\ error[a].kind # "UnsupportedAuthType"
      /\ params[a].issuer \notin Registry =>
           /\ pc[a] \in {"Parsed", "Failed"}
           /\ pc[a] = "Failed" => error[a] = Err("IssuerNotRegistered", params[a].issuer)
      /\ Invoked(a, "createVerifiablePresentation") => authorized[a] = "resolved"
      /\ \A i \in 1..Len(posts[a]) :
           /\ authorized[a] = "resolved"
           /\ accessToken[a] # "" =>
                (HasAuthorization(posts[a][i])
                   /\ posts[a][i].headers["Authorization"] = "Bearer " \o accessToken[a])
           /\ accessToken[a] = "" => ~HasAuthorization(posts[a][i])

C19_Witness ==
  \E a \in Attempts :
    /\ params[a].auth_type = Undefined
    /\ Len(posts[a]) = 1
    /\ HasAuthorization(posts[a][1])
    /\ posts[a][1].headers["Authorization"] = "Bearer tokB"

\* Everything an attempt holds.
Local(a) ==
  <<params[a], pc[a], accessToken[a], calls[a], posts[a], authorized[a], response[a],
    verified[a], extracted[a], warned[a], error[a], result[a]>>

\* C17: with two attempts interleaved at their suspension points, a
\* submission carries the url, the challenge and the token of its own attempt
\* only (no Authorization header unless this attempt acquired a non-empty
\* token), an attempt's outcome follows from its own collaborator answers, and
\* a step of one attempt changes nothing the other attempt holds.
C17_AttemptsIndependent ==
  /\ [](\A a \in Attempts :
          /\ \A i \in 1..Len(posts[a]) :
               /\ posts[a][i].url = params[a].vc_request_url
               /\ posts[a][i].body = <<"JSON", Presentation(DidRecord, params[a].challenge)>>
               /\ HasAuthorization(posts[a][i]) <=>
                    (authorized[a] = "resolved" /\ accessToken[a] # "")
               /\ HasAuthorization(posts[a][i]) =>
                    posts[a][i].headers["Authorization"] = "Bearer " \o accessToken[a]
          /\ params[a].auth_type = "bearer" => accessToken[a] = Undefined
          /\ pc[a] = "Done" =>
               (Len(extracted[a]) = 1 /\ result[a] = extracted[a][1].credentials)
          /\ (Len(response[a]) = 1 /\ ~Is2xx(response[a][1].status)) => pc[a] = "Failed")
  /\ [][/\ params' = params
        /\ \A a, b \in Attempts :
             (a # b /\ Local(a)' # Local(a)) => Local(b)' = Local(b)]_vars

C17_Witness ==
  \E a, b \in Attempts :
    /\ a # b
    /\ accessToken[a] = "tokA"
    /\ accessToken[b] = "tokB"
    /\ Len(posts[a]) = 1
    /\ Len(posts[b]) = 1
    /\ pc[a] = "Done"
    /\ pc[b] = "AwaitingResponse"

----------------------------------------------------------------------------
(* Properties of the request shape checks *)

\* A value is a CHAPI request as the claims describe it: both keys are there
\* and protocols is a map holding a truthy value under a recognized key.
HasKey(v, key) == v.t = "object" /\ key \in DOMAIN v.fields
DescribesChapiRequest(v) ==
  /\ HasKey(v, "credentialRequestOrigin")
  /\ HasKey(v, "protocols")
  /\ v.fields["protocols"].t = "object"
  /\ \E key \in {"OID4VCI", "OID4VP", "vcapi"} :
       /\ HasKey(v.fields["protocols"], key)
       /\ JsTruthy(v.fields["protocols"].fields[key])

\* The value a decodable text stands for (the text is its encoding).
Decodable(text) == \E v \in RequestValues : Encode(v) = text
ValueOf(text) == CHOOSE v \in RequestValues : Encode(v) = text

\* C11: isChapiCredentialRequest returns a boolean for every value, true
\* exactly when both keys are present and protocols holds a truthy value under
\* OID4VCI, OID4VP or vcapi, and false otherwise (protocols not a map included).
C11_IsChapiRequestIff ==
  ccall = "isChapiCredentialRequest" =>
    /\ cresult.threw = ""
    /\ cresult.bool <=> DescribesChapiRequest(creq)

\* C12: isChapiCredentialRequestParams returns a boolean for every bag, true
\* exactly when the request string decodes to a value that passes
\* isChapiCredentialRequest, and false when the string is missing, empty or
\* not decodable.
C12_IsChapiParamsIff ==
  (ccall = "isChapiCredentialRequestParams" /\ cbag.given) =>
    /\ cresult.threw = ""
    /\ cresult.bool <=>
         (/\ ~NoRequestString(cbag)
          /\ Decodable(cbag.request[1])
          /\ DescribesChapiRequest(ValueOf(cbag.request[1])))

\* C13: isCredentialRequestParams returns true exactly when the bag is given
\* and both issuer and vc_request_url hold something other than undefined,
\* whatever it is (null and the empty string included).
C13_IsCredentialRequestParamsIff ==
  ccall = "isCredentialRequestParams" =>
    /\ cresult.threw = ""
    /\ cresult.bool <=>
         (cbag.given /\ cbag.issuer # Undefined /\ cbag.vc_request_url # Undefined)

C13_Witness ==
  /\ ccall = "isCredentialRequestParams"
  /\ cbag.issuer = ""
  /\ cbag.vc_request_url = Null
  /\ cresult.bool

\* C14: getChapiCredentialRequest throws the malformed-request error, without
\* calling JSON.parse, when the request string is missing or empty; a string
\* that is not JSON makes it throw JSON.parse's SyntaxError instead; any other
\* string yields the value it encodes.
C14_MalformedBeforeDecode ==
  (ccall = "getChapiCredentialRequest" /\ cbag.given) =>
    IF NoRequestString(cbag)
    THEN cresult.threw = "MalformedRequest" /\ cresult.decodes = 0
    ELSE IF cbag.request[1] \in BrokenTexts
    THEN cresult.threw = "SyntaxError" /\ cresult.decodes = 1
    ELSE /\ cresult.threw = ""
         /\ cresult.decodes = 1
         /\ Encode(cresult.value) = cbag.request[1]

C14_Witness ==
  /\ ccall = "getChapiCredentialRequest"
  /\ cbag.request = << <<>> >>
  /\ cresult.threw = "MalformedRequest"

----------------------------------------------------------------------------
(* Properties of ShareHomeScreen *)

\* C20: whatever the interleaving of toggle calls and renders, an index is in
\* `selected` exactly when toggle was called for it an odd number of times
\* since mount, and a toggle of one index leaves the membership of every other
\* index as it was.
C20_SelectedIffOddToggles ==
  /\ [](\A i \in DOMAIN toggles : Includes(selected, i) <=> toggles[i] % 2 = 1)
  /\ [][\A i, j \in DOMAIN toggles :
          (i # j /\ toggles'[i] # toggles[i] /\ toggles'[j] = toggles[j])
            => (Includes(selected', j) <=> Includes(selected, j))]_vars
====
